---- MODULE Spec2Model ----
(***************************************************************************)
(* Model of the inverted index of src/indexer.py (class InvertedIndex):    *)
(* ingestion, gamma/delta compression, conjunctive search, persistence.    *)
(*                                                                         *)
(* Python values are tagged, because one field of the index holds ints,    *)
(* bytes and lists at different times: PyInt(n), PyBytes(s), PyList(s).    *)
(* A byte string is a sequence of the characters "0" and "1".              *)
(* A text is a sequence of lexemes: maximal runs of non-blank characters   *)
(* (the words of Words) alternating with maximal runs of blanks (WS).      *)
(***************************************************************************)
EXTENDS Integers, Sequences, FiniteSets, TLC

\* ---------------------------------------------------------------- bounds
MaxDocs == 2
MaxTextLen == 3
MaxQueryLen == 3
MaxNum == 120
MaxPDocs == 2
MaxPTextLen == 1
MaxPQueryLen == 1
MaxLDocs == 2
MaxOQueryLen == 5
MaxUrls == 3
MaxPages == 2
MaxRuns == 2
MaxDbUrls == 3
MaxData == 2

\* ---------------------------------------------------------------- values
PyInt(n) == [k |-> "int", v |-> n]

PyBytes(s) == [k |-> "bytes", v |-> s]

PyList(s) == [k |-> "list", v |-> s]

WS == " "

Words == {"A", "b"}

QueryWords == {"A", "a", "b"}

DocId(i) == <<"doc", i>>

DocIds == {DocId(i) : i \in 1..MaxDocs}

\* the strings of at most n lexemes: words and blank runs alternate
IsText(t) == \A i \in 1..(Len(t) - 1) : (t[i] = WS) # (t[i + 1] = WS)

TextsUpTo(words, n) == UNION {{t \in [1..m -> words \cup {WS}] : IsText(t)} : m \in 0..n}

Texts == TextsUpTo(Words, MaxTextLen)

Queries == TextsUpTo(QueryWords, MaxQueryLen)

PTexts == TextsUpTo(Words, MaxPTextLen)

\* the queries without blanks around them: one to three words
OQueries == {q \in TextsUpTo(QueryWords, MaxOQueryLen) :
                q = <<>> \/ (q[1] # WS /\ q[Len(q)] # WS)}

PQueries == TextsUpTo(QueryWords, MaxPQueryLen)

\* ------------------------------------------------------------- tokenizer
\* str.lower on one lexeme
LowerWord(w) == CASE w = "A" -> "a"
                  [] w = "B" -> "b"
                  [] OTHER -> w

lower(text) == [i \in 1..Len(text) |-> LowerWord(text[i])]

IsWord(x) == x # WS

split(text) == SelectSeq(text, IsWord)

_tokenize(text) == split(lower(text))

\* ----------------------------------------------------------- gamma codec
RECURSIVE BinDigits(_)
\* the digits of bin(num) after the "0b" prefix, num >= 0
BinDigits(num) == IF num < 2 THEN <<IF num = 1 THEN "1" ELSE "0">>
                  ELSE BinDigits(num \div 2) \o <<IF num % 2 = 1 THEN "1" ELSE "0">>

Repeat(c, n) == [i \in 1..n |-> c]

\* an encoder with the unary part in zeros and a one as its terminator
_gamma_encode_ZerosThenOne(num) ==
    IF num = 0 THEN <<>>
    ELSE LET binary == Tail(BinDigits(num))
             length == Len(binary)
             unary == Repeat("0", length) \o <<"1">>
         IN unary \o binary

\* an encoder without the branch for zero: bin(0)[3:] is empty, so 0 becomes b'0'
_gamma_encode_NoZeroCase(num) ==
    LET binary == Tail(BinDigits(num))
        length == Len(binary)
        unary == Repeat("1", length) \o <<"0">>
    IN unary \o binary

\* bytes returned by _gamma_encode(num), num >= 0
_gamma_encode(num) ==
    IF num = 0 THEN <<>>
    ELSE LET binary == Tail(BinDigits(num))
             length == Len(binary)
             unary == Repeat("1", length) \o <<"0">>
         IN unary \o binary

\* str.find(c): 0-based index of the first c in s, -1 when there is none
Find(s, c) == IF \E i \in 1..Len(s) : s[i] = c
              THEN (CHOOSE i \in 1..Len(s) : s[i] = c /\ \A j \in 1..(i - 1) : s[j] # c) - 1
              ELSE -1

\* Python slice s[start:stop] with 0-based bounds, negative bounds counted from the end
PySlice(s, start, stop) ==
    LET n == Len(s)
        norm(x) == IF x < 0 THEN (IF x + n < 0 THEN 0 ELSE x + n) ELSE (IF x > n THEN n ELSE x)
        a == norm(start)
        b == norm(stop)
    IN IF a >= b THEN <<>> ELSE SubSeq(s, a + 1, b)

RECURSIVE ParseBin(_)
\* int(binary, 2)
ParseBin(binary) == IF binary = <<>> THEN 0
                    ELSE 2 * ParseBin(SubSeq(binary, 1, Len(binary) - 1))
                         + (IF binary[Len(binary)] = "1" THEN 1 ELSE 0)

\* a decoder that forgets the implicit leading one-bit
_gamma_decode_NoLeadingOne(encoded) ==
    IF encoded = <<>> THEN 0
    ELSE LET unary_end == Find(encoded, "0")
             length == unary_end
         IN ParseBin(PySlice(encoded, unary_end + 1, unary_end + 1 + length))

\* int returned by _gamma_decode(encoded) for a bytes argument
_gamma_decode(encoded) ==
    IF encoded = <<>> THEN 0
    ELSE LET unary_end == Find(encoded, "0")
             length == unary_end
             binary == <<"1">> \o PySlice(encoded, unary_end + 1, unary_end + 1 + length)
         IN ParseBin(binary)
\* ----------------------------------------------------------------- state
VARIABLES index, index_order, index_isdd, doc_ids, doc_counter, use_compression,
          file, texts, history, lastOp, ret, err, gnum, genc, gdec, gpc,
          site, fails, max_pages, visited_urls, queue, pages_crawled,
          yielded, first_yield, fetch_failed, cpc, runs,
          pages, db_last, db_err

\* index           self.index: term -> list of postings (pairs of tagged values)
\* index_order     the keys of self.index in insertion order (dict order)
\* index_isdd      TRUE while self.index is the defaultdict(list) of __init__
\* doc_ids         self.doc_ids: external id -> ordinal
\* file            the pickled record of save_to_file, or NoFile
\* texts           history: external id -> the words of the text it was registered with
\* history         the calls made on this instance so far: "ingesting" (add_document and
\*                 search only), "compressed" (then one compress_index, then search
\*                 only), "later" (anything more)
\* lastOp          the last call: its name, its arguments, whether the id of an
\*                 add_document was registered already, the mode flag before the call
\* ret, err        what the last call returned and the exception it raised
\* gnum, genc, gdec, gpc  a run of the codec on one number
\* site            the crawled site, which does not change, as far as the crawler
\*                 has seen it: fetched URL -> the links extract_links returns for
\*                 its page, in the order the loop of crawl iterates over them
\* fails           the URLs for which requests.get raised RequestException, and
\*                 raises it again
\* max_pages, visited_urls      fields of the WebCrawler
\* queue, pages_crawled         locals of the running crawl()
\* yielded         the URLs of the pages the current run of crawl() has yielded
\* first_yield     what the first run on this WebCrawler yielded
\* fetch_failed    the URLs whose fetch failed in the current run
\* cpc             "idle" before the first run, "running", "done" at an exhausted run
\* runs            the runs of crawl() started on this WebCrawler
\* pages           the rows of the table pages
\* db_last         the last insert_page call: its arguments and whether the url
\*                 was in the table
\* db_err          the exception the last insert_page call raised
vars == <<index, index_order, index_isdd, doc_ids, doc_counter, use_compression,
          file, texts, history, lastOp, ret, err, gnum, genc, gdec, gpc,
          site, fails, max_pages, visited_urls, queue, pages_crawled,
          yielded, first_yield, fetch_failed, cpc, runs,
          pages, db_last, db_err>>

crawlVars == <<site, fails, max_pages, visited_urls, queue, pages_crawled,
               yielded, first_yield, fetch_failed, cpc, runs>>

dbVars == <<pages, db_last, db_err>>

indexVars == <<index, index_order, index_isdd, doc_ids, doc_counter, use_compression>>

gammaVars == <<gnum, genc, gdec, gpc>>

NoFile == [present |-> FALSE]

\* self.doc_counter of a fresh instance: the ordinal of its first document
FirstOrdinal == 0

\* an ordinal taken after the increment instead of before it
AssignedOrdinal_AfterIncrement(counter) == counter + 1

\* self.doc_ids[doc_id] = self.doc_counter
AssignedOrdinal(counter) == counter

\* a counter that skips a value
NextCounter_Skip(counter) == counter + 2

\* self.doc_counter += 1
NextCounter(counter) == counter + 1

\* a duplicate check that never fires
IsRegistered_Never(ids, doc_id) == FALSE

\* doc_id in self.doc_ids
IsRegistered(ids, doc_id) == doc_id \in DOMAIN ids

EmptyMap == [x \in {} |-> 0]

None == {}

NoQuery == <<>>

Op(name, doc, query) ==
    [op |-> name, doc |-> doc, query |-> query, dup |-> doc \in DOMAIN doc_ids,
     flag |-> use_compression]

NoDoc == <<"doc", 0>>

\* a function extended or overwritten at one key
Put(f, key, val) == [x \in DOMAIN f \cup {key} |-> IF x = key THEN val ELSE f[x]]
\* ---------------------------------------------------------- add_document
\* one state of the table inside a method: the dict, its key order, the error raised
Tab(ix, order, e) == [index |-> ix, order |-> order, err |-> e]

\* self.index[word].append(entry): a defaultdict creates the missing key,
\* the plain dict left by compress_index raises KeyError
AppendPosting(tab, isdd, word, entry) ==
    IF word \in DOMAIN tab.index
    THEN Tab(Put(tab.index, word, Append(tab.index[word], entry)), tab.order, "none")
    ELSE IF isdd
         THEN Tab(Put(tab.index, word, <<entry>>), Append(tab.order, word), "none")
         ELSE Tab(tab.index, tab.order, "KeyError")

\* a loop body that posts every occurrence as an entry of its own in both modes
AddWord_NoMerge(tab, isdd, compression, ord, pos, word) ==
    AppendPosting(tab, isdd, word,
                  <<PyInt(ord), IF compression THEN PyList(<<pos>>) ELSE PyInt(pos)>>)

\* the body of the loop of add_document for one (pos, word); ord is self.doc_ids[doc_id]
AddWord(tab, isdd, compression, ord, pos, word) ==
    IF compression
    THEN IF word \in DOMAIN tab.index
         THEN LET postings == tab.index[word]
                  last == postings[Len(postings)]
                  last_doc_id == last[1]
                  positions == last[2]
              IN IF last_doc_id.k = "int" /\ last_doc_id.v = ord
                 THEN Tab(Put(tab.index, word,
                              [postings EXCEPT ![Len(postings)] =
                                  <<last_doc_id, PyList(Append(positions.v, pos))>>]),
                          tab.order, "none")
                 ELSE AppendPosting(tab, isdd, word, <<PyInt(ord), PyList(<<pos>>)>>)
         ELSE AppendPosting(tab, isdd, word, <<PyInt(ord), PyList(<<pos>>)>>)
    ELSE AppendPosting(tab, isdd, word, <<PyInt(ord), PyInt(pos)>>)

RECURSIVE AddWords_SkipLast(_, _, _, _, _, _)
\* a loop that stops one word early
AddWords_SkipLast(tab, isdd, compression, ord, words, i) ==
    IF i >= Len(words) \/ tab.err # "none" THEN tab
    ELSE AddWords_SkipLast(AddWord(tab, isdd, compression, ord, i - 1, words[i]),
                           isdd, compression, ord, words, i + 1)

RECURSIVE AddWords(_, _, _, _, _, _)
\* for pos, word in enumerate(words), from the i-th word on; an exception ends the loop
AddWords(tab, isdd, compression, ord, words, i) ==
    IF i > Len(words) \/ tab.err # "none" THEN tab
    ELSE AddWords(AddWord(tab, isdd, compression, ord, i - 1, words[i]),
                  isdd, compression, ord, words, i + 1)

add_document(doc_id, text) ==
    /\ lastOp' = Op("add_document", doc_id, NoQuery)
    /\ ret' = None
    /\ history' = IF history = "ingesting" THEN "ingesting" ELSE "later"
    /\ UNCHANGED <<index_isdd, use_compression, file, gammaVars, crawlVars, dbVars>>
    /\ IF IsRegistered(doc_ids, doc_id)
       THEN /\ err' = "none"
            /\ UNCHANGED <<index, index_order, doc_ids, doc_counter, texts>>
       ELSE LET ord == AssignedOrdinal(doc_counter)
                words == _tokenize(text)
                tab == AddWords(Tab(index, index_order, "none"), index_isdd,
                                use_compression, ord, words, 1)
            IN /\ doc_ids' = Put(doc_ids, doc_id, ord)
               /\ doc_counter' = NextCounter(doc_counter)
               /\ texts' = Put(texts, doc_id, split(text))
               /\ index' = tab.index
               /\ index_order' = tab.order
               /\ err' = tab.err
\* -------------------------------------------------------- compress_index
RECURSIVE BytesLess(_, _)
\* a < b for two bytes objects (lexicographic, "0" before "1")
BytesLess(a, b) ==
    IF b = <<>> THEN FALSE
    ELSE IF a = <<>> THEN TRUE
    ELSE IF Head(a) # Head(b) THEN Head(a) = "0"
    ELSE BytesLess(Tail(a), Tail(b))

\* x < y for two sort keys of the same type
KeyLess(x, y) == IF x.k = "int" THEN x.v < y.v ELSE BytesLess(x.v, y.v)

\* comparing an int key with a bytes key raises TypeError
Comparable(postings) == \A i, j \in 1..Len(postings) : postings[i][1].k = postings[j][1].k

RECURSIVE InsertSorted(_, _)
\* e put after every element of the sorted list whose key is not greater (stable)
InsertSorted(sorted, e) ==
    IF sorted = <<>> THEN <<e>>
    ELSE IF KeyLess(e[1], sorted[Len(sorted)][1])
         THEN Append(InsertSorted(SubSeq(sorted, 1, Len(sorted) - 1), e), sorted[Len(sorted)])
         ELSE Append(sorted, e)

RECURSIVE SortByDocId(_)
\* postings.sort(key=lambda x: x[0]) on comparable keys
SortByDocId(postings) ==
    IF postings = <<>> THEN <<>>
    ELSE InsertSorted(SortByDocId(SubSeq(postings, 1, Len(postings) - 1)),
                      postings[Len(postings)])

RECURSIVE SortInts(_)
\* positions.sort() on a list of ints
SortInts(xs) ==
    IF xs = <<>> THEN <<>>
    ELSE LET m == CHOOSE i \in 1..Len(xs) : \A j \in 1..Len(xs) : xs[i] <= xs[j]
         IN <<xs[m]>> \o SortInts([j \in 1..(Len(xs) - 1) |-> IF j < m THEN xs[j] ELSE xs[j + 1]])

RECURSIVE EncodeDeltas(_, _)
\* the join of the gamma codes of the successive differences of positions
EncodeDeltas(positions, prev_pos) ==
    IF positions = <<>> THEN <<>>
    ELSE _gamma_encode(Head(positions) - prev_pos) \o EncodeDeltas(Tail(positions), Head(positions))

\* compressed_positions of one posting whose positions are a list
CompressPositions(positions) ==
    IF Len(positions) > 1
    THEN EncodeDeltas(SortInts(positions), 0)
    ELSE _gamma_encode(positions[1])

RECURSIVE CompressPostings_RawDocId(_, _, _)
\* an inner loop that encodes the positions and keeps the ordinal as it is
CompressPostings_RawDocId(postings, i, prev_doc_id) ==
    IF i > Len(postings) THEN [err |-> "none", out |-> <<>>]
    ELSE LET doc_id == postings[i][1]
             positions == postings[i][2]
         IN IF doc_id.k # "int" \/ positions.k # "list"
            THEN [err |-> "TypeError", out |-> <<>>]
            ELSE LET rest == CompressPostings_RawDocId(postings, i + 1, doc_id.v)
                 IN [err |-> rest.err,
                     out |-> <<<<doc_id, PyBytes(CompressPositions(positions.v))>>>> \o rest.out]

RECURSIVE CompressPostings(_, _, _)
\* the inner loop of compress_index over the sorted postings of one term, from the
\* i-th on: doc_id - prev_doc_id raises TypeError on bytes, len(positions) on an int
CompressPostings(postings, i, prev_doc_id) ==
    IF i > Len(postings) THEN [err |-> "none", out |-> <<>>]
    ELSE LET doc_id == postings[i][1]
             positions == postings[i][2]
         IN IF doc_id.k # "int" \/ positions.k # "list"
            THEN [err |-> "TypeError", out |-> <<>>]
            ELSE LET delta_doc == doc_id.v - prev_doc_id
                     rest == CompressPostings(postings, i + 1, doc_id.v)
                 IN [err |-> rest.err,
                     out |-> <<<<PyBytes(_gamma_encode(delta_doc)),
                                 PyBytes(CompressPositions(positions.v))>>>> \o rest.out]

RECURSIVE CompressTerms(_, _, _, _)
\* the outer loop of compress_index from the i-th term of the dict on.  ix is
\* self.index, whose lists the loop sorts in place; out is compressed_index.
\* A sort that raises moves nothing in a list of at most three postings.
CompressTerms(ix, order, i, out) ==
    IF i > Len(order) THEN [err |-> "none", index |-> ix, out |-> out]
    ELSE LET term == order[i]
         IN IF ~Comparable(ix[term])
            THEN [err |-> "TypeError", index |-> ix, out |-> out]
            ELSE LET postings == SortByDocId(ix[term])
                     sorted == Put(ix, term, postings)
                     c == CompressPostings(postings, 1, 0)
                 IN IF c.err # "none"
                    THEN [err |-> c.err, index |-> sorted, out |-> out]
                    ELSE CompressTerms(sorted, order, i + 1, Put(out, term, c.out))

compress_index ==
    /\ lastOp' = Op("compress_index", NoDoc, NoQuery)
    /\ ret' = None
    /\ history' = IF history = "ingesting" THEN "compressed" ELSE "later"
    /\ UNCHANGED <<index_order, doc_ids, doc_counter, use_compression, file, texts, gammaVars, crawlVars, dbVars>>
    /\ IF ~use_compression
       THEN /\ err' = "none"
            /\ UNCHANGED <<index, index_isdd>>
       ELSE LET c == CompressTerms(index, index_order, 1, EmptyMap)
            IN /\ err' = c.err
               /\ index' = IF c.err = "none" THEN c.out ELSE c.index
               /\ index_isdd' = IF c.err = "none" THEN FALSE ELSE index_isdd
\* ----------------------------------------------------------------- search
RECURSIVE DecodePositions(_, _, _)
\* the while loop of search over pos_stream from pos_start (0-based) on
DecodePositions(pos_stream, pos_start, prev_pos) ==
    IF pos_start >= Len(pos_stream) THEN <<>>
    ELSE LET found == Find(PySlice(pos_stream, pos_start, Len(pos_stream)), "0")
         IN IF found = -1 THEN <<>>
            ELSE LET unary_end == found + pos_start
                     length == unary_end - pos_start
                     binary == <<"1">> \o PySlice(pos_stream, unary_end + 1, unary_end + 1 + length)
                     pos == prev_pos + ParseBin(binary)
                 IN <<pos>> \o DecodePositions(pos_stream, unary_end + 1 + length, pos)

\* _gamma_decode(encoded) for any argument: a falsy one (b'' or the int 0) gives 0,
\* then .decode is called, which an int does not have
GammaDecodeAny(encoded) ==
    IF encoded.k = "int"
    THEN [err |-> IF encoded.v = 0 THEN "none" ELSE "AttributeError", val |-> 0]
    ELSE [err |-> "none", val |-> _gamma_decode(encoded.v)]

RECURSIVE Decompress(_, _, _)
\* the loop of search over the postings of one term of a compression-enabled index
Decompress(postings, i, prev_doc_id) ==
    IF i > Len(postings) THEN [err |-> "none", out |-> <<>>]
    ELSE LET encoded_doc == postings[i][1]
             encoded_positions == postings[i][2]
             delta_doc == GammaDecodeAny(encoded_doc)
         IN IF delta_doc.err # "none"
            THEN [err |-> delta_doc.err, out |-> <<>>]
            ELSE LET doc_id == prev_doc_id + delta_doc.val
                     positions == IF encoded_positions.k = "bytes"
                                  THEN DecodePositions(encoded_positions.v, 0, 0)
                                  ELSE <<>>
                     rest == Decompress(postings, i + 1, doc_id)
                 IN [err |-> rest.err,
                     out |-> <<<<PyInt(doc_id), PyList(positions)>>>> \o rest.out]

\* _get_doc_ids(postings), as a set
_get_doc_ids(postings) == {postings[i][1] : i \in 1..Len(postings)}

RECURSIVE PostingsLists(_, _, _, _)
\* the loop of search over the query terms from the i-th on: an absent term
\* returns [] at once, a term that cannot be decoded raises
PostingsLists(ix, compression, terms, i) ==
    IF i > Len(terms) THEN [err |-> "none", absent |-> FALSE, lists |-> <<>>]
    ELSE LET term == terms[i]
         IN IF term \notin DOMAIN ix
            THEN [err |-> "none", absent |-> TRUE, lists |-> <<>>]
            ELSE LET d == IF compression THEN Decompress(ix[term], 1, 0)
                                         ELSE [err |-> "none", out |-> ix[term]]
                 IN IF d.err # "none"
                    THEN [err |-> d.err, absent |-> FALSE, lists |-> <<>>]
                    ELSE LET rest == PostingsLists(ix, compression, terms, i + 1)
                         IN [err |-> rest.err, absent |-> rest.absent,
                             lists |-> <<d.out>> \o rest.lists]

RECURSIVE Intersect_Union(_, _, _)
\* a loop that unites the postings instead of intersecting them
Intersect_Union(result, lists, i) ==
    IF i > Len(lists) THEN result
    ELSE Intersect_Union(result \cup _get_doc_ids(lists[i]), lists, i + 1)

RECURSIVE Intersect_SkipOne(_, _, _)
\* a loop that starts one list too late
Intersect_SkipOne(result, lists, i) ==
    IF i + 1 > Len(lists) THEN result
    ELSE Intersect_SkipOne(result \cap _get_doc_ids(lists[i + 1]), lists, i + 1)

RECURSIVE Intersect(_, _, _)
\* result.intersection_update over postings_lists[1:], from the i-th list on,
\* leaving the loop once the result is empty
Intersect(result, lists, i) ==
    IF i > Len(lists) THEN result
    ELSE LET r == result \cap _get_doc_ids(lists[i])
         IN IF r = {} THEN r ELSE Intersect(r, lists, i + 1)

\* a search for which a query without tokens matches every document
SearchIn_EmptyMatchesAll(ix, ids, compression, query) ==
    LET terms == _tokenize(query)
    IN IF terms = <<>> THEN [err |-> "none", ret |-> DOMAIN ids]
       ELSE LET p == PostingsLists(ix, compression, terms, 1)
            IN IF p.err # "none" THEN [err |-> p.err, ret |-> None]
               ELSE IF p.absent THEN [err |-> "none", ret |-> {}]
               ELSE LET result == Intersect(_get_doc_ids(p.lists[1]), p.lists, 2)
                    IN [err |-> "none",
                        ret |-> {doc_id \in DOMAIN ids : PyInt(ids[doc_id]) \in result}]

\* search(query) on an index with the given fields: the exception raised and
\* the ids returned, as a set
SearchIn(ix, ids, compression, query) ==
    LET terms == _tokenize(query)
    IN IF terms = <<>> THEN [err |-> "none", ret |-> {}]
       ELSE LET p == PostingsLists(ix, compression, terms, 1)
            IN IF p.err # "none" THEN [err |-> p.err, ret |-> None]
               ELSE IF p.absent THEN [err |-> "none", ret |-> {}]
               ELSE LET result == Intersect(_get_doc_ids(p.lists[1]), p.lists, 2)
                    IN [err |-> "none",
                        ret |-> {doc_id \in DOMAIN ids : PyInt(ids[doc_id]) \in result}]

Search(query) == SearchIn(index, doc_ids, use_compression, query)

RECURSIVE InsertMissing(_, _, _)
\* the table after self.index[term] was read for the terms from the i-th on:
\* a defaultdict inserts an empty list for a key it does not have
InsertMissing(tab, terms, i) ==
    IF i > Len(terms) THEN tab
    ELSE IF terms[i] \in DOMAIN tab.index THEN InsertMissing(tab, terms, i + 1)
    ELSE InsertMissing(Tab(Put(tab.index, terms[i], <<>>), Append(tab.order, terms[i]), "none"),
                       terms, i + 1)

\* a search that reads self.index[term] before it tests the term
search_Inserting(query) ==
    /\ lastOp' = Op("search", NoDoc, query)
    /\ ret' = Search(query).ret
    /\ err' = Search(query).err
    /\ index' = IF index_isdd
                THEN InsertMissing(Tab(index, index_order, "none"), _tokenize(query), 1).index
                ELSE index
    /\ index_order' = IF index_isdd
                      THEN InsertMissing(Tab(index, index_order, "none"), _tokenize(query), 1).order
                      ELSE index_order
    /\ UNCHANGED <<index_isdd, doc_ids, doc_counter, use_compression, file, texts, history,
                   gammaVars, crawlVars, dbVars>>

search(query) ==
    /\ lastOp' = Op("search", NoDoc, query)
    /\ ret' = Search(query).ret
    /\ err' = Search(query).err
    /\ UNCHANGED <<indexVars, file, texts, history, gammaVars, crawlVars, dbVars>>

\* ------------------------------------------------------------ persistence
\* InvertedIndex(use_compression): a fresh instance takes the place of the current one
__init__(compression) ==
    /\ index' = EmptyMap
    /\ index_order' = <<>>
    /\ index_isdd' = TRUE
    /\ doc_ids' = EmptyMap
    /\ doc_counter' = FirstOrdinal
    /\ use_compression' = compression
    /\ texts' = EmptyMap
    /\ history' = "ingesting"
    /\ lastOp' = Op("__init__", NoDoc, NoQuery)
    /\ ret' = None
    /\ err' = "none"
    /\ UNCHANGED <<file, gammaVars, crawlVars, dbVars>>

\* the keys of the dict save_to_file pickles, in the order load_from_file reads them
FieldOrder == <<"index", "doc_ids", "doc_counter", "use_compression">>

PickleKeys == {FieldOrder[i] : i \in DOMAIN FieldOrder}

\* a record that always says the index is compression-enabled
PickledState_FlagSet ==
    [present |-> TRUE, valid |-> TRUE, keys |-> PickleKeys,
     index |-> index, index_order |-> index_order, index_isdd |-> index_isdd,
     doc_ids |-> doc_ids, doc_counter |-> doc_counter,
     use_compression |-> TRUE, texts |-> texts, history |-> history]

\* the file save_to_file writes: a blob pickle can read (valid), holding a
\* dict with the four keys and their values (the index with its type and key
\* order), and with them the history of the instance
PickledState ==
    [present |-> TRUE, valid |-> TRUE, keys |-> PickleKeys,
     index |-> index, index_order |-> index_order, index_isdd |-> index_isdd,
     doc_ids |-> doc_ids, doc_counter |-> doc_counter,
     use_compression |-> use_compression, texts |-> texts, history |-> history]

\* pickle.dump of the record into the file
save_to_file ==
    /\ file' = PickledState
    /\ lastOp' = Op("save_to_file", NoDoc, NoQuery)
    /\ ret' = None
    /\ err' = "none"
    /\ UNCHANGED <<indexVars, texts, history, gammaVars, crawlVars, dbVars>>

\* the file is replaced from outside by a blob pickle cannot read (valid
\* FALSE) or by a pickled dict holding only some of the keys
write_blob(keys, valid) ==
    /\ file.present
    /\ file' = [file EXCEPT !.keys = keys, !.valid = valid]
    /\ UNCHANGED <<indexVars, texts, history, lastOp, ret, err, gammaVars, crawlVars, dbVars>>

\* the k-th assignment of load_from_file is reached: no data[key] before it raised
Assigned(keys, k) == \A j \in 1..k : FieldOrder[j] \in keys

\* open() raises when there is no file and pickle.load when the blob is not a
\* pickle; then the four fields are assigned one after the other, and the
\* first key the dict lacks raises KeyError after the assignments before it
load_from_file ==
    /\ lastOp' = Op("load_from_file", NoDoc, NoQuery)
    /\ ret' = None
    /\ UNCHANGED <<file, gammaVars, crawlVars, dbVars>>
    /\ IF ~file.present \/ ~file.valid
       THEN /\ err' = IF ~file.present THEN "FileNotFoundError" ELSE "UnpicklingError"
            /\ UNCHANGED <<indexVars, texts, history>>
       ELSE /\ err' = IF Assigned(file.keys, 4) THEN "none" ELSE "KeyError"
            /\ index' = IF Assigned(file.keys, 1) THEN file.index ELSE index
            /\ index_order' = IF Assigned(file.keys, 1) THEN file.index_order ELSE index_order
            /\ index_isdd' = IF Assigned(file.keys, 1) THEN file.index_isdd ELSE index_isdd
            /\ doc_ids' = IF Assigned(file.keys, 2) THEN file.doc_ids ELSE doc_ids
            /\ texts' = IF Assigned(file.keys, 2) THEN file.texts ELSE texts
            /\ doc_counter' = IF Assigned(file.keys, 3) THEN file.doc_counter ELSE doc_counter
            /\ use_compression' = IF Assigned(file.keys, 4) THEN file.use_compression
                                  ELSE use_compression
            /\ history' = IF Assigned(file.keys, 4) THEN file.history
                          ELSE IF Assigned(file.keys, 1) THEN "later" ELSE history

\* ------------------------------------------------------------ codec runs
\* _gamma_encode(gnum) returns for every number, it has no raise
GammaEncode ==
    /\ gpc = "start"
    /\ genc' = _gamma_encode(gnum)
    /\ err' = "none"
    /\ gpc' = "encoded"
    /\ UNCHANGED <<gnum, gdec, indexVars, file, texts, history, lastOp, ret, crawlVars, dbVars>>

GammaDecode ==
    /\ gpc = "encoded"
    /\ gdec' = _gamma_decode(genc)
    /\ gpc' = "decoded"
    /\ UNCHANGED <<gnum, genc, indexVars, file, texts, history, lastOp, ret, err, crawlVars,
                   dbVars>>

\* ---------------------------------------------------------------- crawler
\* everything that is not a field or a local of the crawler
notCrawlVars == <<indexVars, file, texts, history, lastOp, ret, err, gammaVars, dbVars>>

Urls == 1..MaxUrls

\* self.start_url
StartUrl == 1

\* the sequences over S without a repetition: a set in some iteration order
DistinctSeqs(S) ==
    UNION {{q \in [1..n -> S] : \A i, j \in 1..n : i # j => q[i] # q[j]} :
           n \in 0..Cardinality(S)}

\* what extract_links may return for the page of a URL: links to some of the
\* other pages (a link of a page to itself is visited when it is found and
\* changes nothing); a page fetched before has the links it had then
PageLinks(url) == IF url \in DOMAIN site THEN {site[url]} ELSE DistinctSeqs(Urls \ {url})

RECURSIVE EnqueueLinks_Unchecked(_, _, _, _)
\* a loop that queues every link, visited or not
EnqueueLinks_Unchecked(links, i, visited, q) ==
    IF i > Len(links) THEN [visited_urls |-> visited, queue |-> q]
    ELSE EnqueueLinks_Unchecked(links, i + 1, visited \cup {links[i]}, Append(q, links[i]))

RECURSIVE EnqueueLinks(_, _, _, _)
\* for link in self.extract_links(response), from the i-th link on
EnqueueLinks(links, i, visited, q) ==
    IF i > Len(links) THEN [visited_urls |-> visited, queue |-> q]
    ELSE IF links[i] \notin visited
         THEN EnqueueLinks(links, i + 1, visited \cup {links[i]}, Append(q, links[i]))
         ELSE EnqueueLinks(links, i + 1, visited, q)

\* a loop that goes on while the count has not passed the maximum
LoopCondition_Inclusive(q, crawled, max) == q # <<>> /\ crawled <= max

\* while queue and pages_crawled < self.max_pages
LoopCondition(q, crawled, max) == q # <<>> /\ crawled < max

\* crawl() called and its generator started, no other run being under way
crawl ==
    /\ cpc \in {"idle", "done"}
    /\ runs < MaxRuns
    /\ queue' = <<StartUrl>>
    /\ visited_urls' = visited_urls \cup {StartUrl}
    /\ pages_crawled' = 0
    /\ yielded' = <<>>
    /\ fetch_failed' = {}
    /\ cpc' = "running"
    /\ runs' = runs + 1
    /\ UNCHANGED <<site, fails, max_pages, first_yield, notCrawlVars>>

\* one turn of the loop in which the fetch succeeds: the page is yielded and
\* counted, its links that were not visited are queued
crawl_yield ==
    /\ cpc = "running"
    /\ LoopCondition(queue, pages_crawled, max_pages)
    /\ Head(queue) \notin fails
    /\ \E links \in PageLinks(Head(queue)) :
          LET current_url == Head(queue)
              e == EnqueueLinks(links, 1, visited_urls, Tail(queue))
          IN /\ site' = Put(site, current_url, links)
             /\ yielded' = Append(yielded, current_url)
             /\ pages_crawled' = pages_crawled + 1
             /\ visited_urls' = e.visited_urls
             /\ queue' = e.queue
    /\ UNCHANGED <<fails, max_pages, first_yield, fetch_failed, cpc, runs, notCrawlVars>>

\* a turn that puts the URL whose fetch failed back at the end of the queue
crawl_continue_Requeue ==
    /\ cpc = "running"
    /\ LoopCondition(queue, pages_crawled, max_pages)
    /\ Head(queue) \notin DOMAIN site
    /\ fails' = fails \cup {Head(queue)}
    /\ queue' = Append(Tail(queue), Head(queue))
    /\ fetch_failed' = fetch_failed \cup {Head(queue)}
    /\ UNCHANGED <<site, max_pages, visited_urls, pages_crawled, yielded, first_yield,
                   cpc, runs, notCrawlVars>>

\* one turn of the loop in which requests.get raises RequestException
crawl_continue ==
    /\ cpc = "running"
    /\ LoopCondition(queue, pages_crawled, max_pages)
    /\ Head(queue) \notin DOMAIN site
    /\ fails' = fails \cup {Head(queue)}
    /\ queue' = Tail(queue)
    /\ fetch_failed' = fetch_failed \cup {Head(queue)}
    /\ UNCHANGED <<site, max_pages, visited_urls, pages_crawled, yielded, first_yield,
                   cpc, runs, notCrawlVars>>

\* the loop ends and the generator is exhausted
crawl_return ==
    /\ cpc = "running"
    /\ ~LoopCondition(queue, pages_crawled, max_pages)
    /\ cpc' = "done"
    /\ first_yield' = IF runs = 1 THEN yielded ELSE first_yield
    /\ UNCHANGED <<site, fails, max_pages, visited_urls, queue, pages_crawled, yielded,
                   fetch_failed, runs, notCrawlVars>>

\* ------------------------------------------------------------- page store
DbUrls == 1..MaxDbUrls

Data == 1..MaxData

\* the id of a row inserted without one: one more than the largest id
NextRowId(rows) ==
    IF rows = {} THEN 1
    ELSE (CHOOSE r \in rows : \A o \in rows : o.id <= r.id).id + 1

\* an INSERT OR REPLACE: the row of the url gives way to the new row
SqlInsert_Replace(rows, url, data) ==
    [err |-> "none",
     rows |-> {r \in rows : r.url # url}
              \cup {[id |-> NextRowId(rows), url |-> url, data |-> data]}]

\* INSERT INTO pages (url, data) on the table with url TEXT UNIQUE
SqlInsert(rows, url, data) ==
    IF \E r \in rows : r.url = url
    THEN [err |-> "IntegrityError", rows |-> rows]
    ELSE [err |-> "none",
          rows |-> rows \cup {[id |-> NextRowId(rows), url |-> url, data |-> data]}]

\* insert_page(url, data): sqlite3.IntegrityError is caught and dropped
insert_page(url, data) ==
    LET r == SqlInsert(pages, url, data)
    IN /\ pages' = r.rows
       /\ db_err' = IF r.err = "IntegrityError" THEN "none" ELSE r.err
       /\ db_last' = [op |-> "insert_page", url |-> url, data |-> data,
                      dup |-> \E row \in pages : row.url = url]
       /\ UNCHANGED <<indexVars, file, texts, history, lastOp, ret, err, gammaVars, crawlVars>>

\* --------------------------------------------------------- specifications
InitIndex ==
    /\ index = EmptyMap
    /\ index_order = <<>>
    /\ index_isdd = TRUE
    /\ doc_ids = EmptyMap
    /\ doc_counter = FirstOrdinal
    /\ use_compression \in BOOLEAN
    /\ file = NoFile
    /\ texts = EmptyMap
    /\ history = "ingesting"
    /\ lastOp = [op |-> "__init__", doc |-> NoDoc, query |-> NoQuery, dup |-> FALSE,
                 flag |-> use_compression]
    /\ ret = None
    /\ err = "none"

\* no codec run, no crawler and an empty page store
GammaIdle == gnum = 0 /\ genc = <<>> /\ gdec = 0 /\ gpc = "idle"

CrawlIdle ==
    /\ site = EmptyMap /\ fails = {} /\ max_pages = 0
    /\ visited_urls = {} /\ queue = <<>> /\ pages_crawled = 0
    /\ yielded = <<>> /\ first_yield = <<>> /\ fetch_failed = {}
    /\ cpc = "idle" /\ runs = 0

\* DataBase(filename) on a new file: the table pages is created empty
DbIdle ==
    /\ pages = {}
    /\ db_last = [op |-> "__init__", url |-> 0, data |-> 0, dup |-> FALSE]
    /\ db_err = "none"

Init ==
    /\ InitIndex
    /\ GammaIdle /\ CrawlIdle /\ DbIdle

\* the ids a caller passes: the registered ones and, external ids being
\* interchangeable, the first of the n that is not registered yet
IdsUpTo(n) == {DocId(i) : i \in 1..(IF Cardinality(DOMAIN doc_ids) < n
                                     THEN Cardinality(DOMAIN doc_ids) + 1 ELSE n)}

Next ==
    \/ \E doc_id \in IdsUpTo(MaxDocs), text \in Texts : add_document(doc_id, text)
    \/ compress_index
    \/ \E query \in Queries : search(query)

\* one index instance: ingestion, compression and queries in any order
Spec == Init /\ [][Next]_vars

NextPersist ==
    \/ \E doc_id \in IdsUpTo(MaxPDocs), text \in PTexts : add_document(doc_id, text)
    \/ compress_index
    \/ \E query \in PQueries : search(query)
    \/ \E compression \in BOOLEAN : __init__(compression)
    \/ save_to_file
    \/ load_from_file

\* instances created one after the other, sharing one file
SpecPersist == Init /\ [][NextPersist]_vars

NextOrder ==
    \/ \E doc_id \in IdsUpTo(MaxDocs), text \in Texts : add_document(doc_id, text)
    \/ compress_index
    \/ \E query \in OQueries : search(query)

\* one index instance asked queries of up to three words
SpecOrder == Init /\ [][NextOrder]_vars

NextLoad ==
    \/ /\ doc_counter < MaxLDocs
       /\ \E doc_id \in IdsUpTo(MaxLDocs), text \in PTexts : add_document(doc_id, text)
    \/ compress_index
    \/ save_to_file
    \/ \E key \in PickleKeys : write_blob(PickleKeys \ {key}, TRUE)
    \/ write_blob(PickleKeys, FALSE)
    \/ load_from_file

\* one instance and its file, which is also written from outside
SpecLoad == Init /\ [][NextLoad]_vars

InitGamma ==
    /\ InitIndex
    /\ use_compression
    /\ gnum \in 0..MaxNum /\ genc = <<>> /\ gdec = 0 /\ gpc = "start"
    /\ CrawlIdle /\ DbIdle

NextGamma == GammaEncode \/ GammaDecode

\* the codec alone: one number encoded, then the code decoded
SpecGamma == InitGamma /\ [][NextGamma]_vars

\* WebCrawler(start_url, max_pages) on a site of which nothing was fetched yet
InitCrawl ==
    /\ InitIndex /\ use_compression
    /\ GammaIdle /\ DbIdle
    /\ site = EmptyMap /\ fails = {} /\ max_pages \in 0..MaxPages
    /\ visited_urls = {} /\ queue = <<>> /\ pages_crawled = 0
    /\ yielded = <<>> /\ first_yield = <<>> /\ fetch_failed = {}
    /\ cpc = "idle" /\ runs = 0

NextCrawl == crawl \/ crawl_yield \/ crawl_continue \/ crawl_return

\* one WebCrawler whose crawl() is run to its end, one run after the other
SpecCrawl == InitCrawl /\ [][NextCrawl]_vars

\* the generator is iterated to its end, as the for loop of the main program
\* does, and every requests.get returns or raises within its timeout
SpecCrawlLive ==
    InitCrawl /\ [][NextCrawl]_vars /\ WF_vars(crawl_yield \/ crawl_continue \/ crawl_return)

InitDB ==
    /\ InitIndex /\ use_compression
    /\ GammaIdle /\ CrawlIdle /\ DbIdle

NextDB == \E url \in DbUrls, data \in Data : insert_page(url, data)

\* one DataBase and the pages inserted into it
SpecDB == InitDB /\ [][NextDB]_vars

\* ------------------------------------------------------------------ claims
\* the tokens of the text an id was registered with
DocTokens(doc_id) == _tokenize(texts[doc_id])

Contains(doc_id, token) == \E i \in 1..Len(DocTokens(doc_id)) : DocTokens(doc_id)[i] = token

\* the registered ids whose text contains every token of the query
Matching(query) ==
    {doc_id \in DOMAIN doc_ids :
        \A i \in 1..Len(_tokenize(query)) : Contains(doc_id, _tokenize(query)[i])}

Returns(query, ids) == Search(query).err = "none" /\ Search(query).ret = ids

\* C1: a query with at least one token returns exactly the registered ids
\* whose text contains every token of the query, on a compression-disabled
\* index after add_document calls and on a compression-enabled index after
\* add_document calls followed by one compress_index.
C1_ConjunctiveSearch ==
    ((~use_compression /\ history = "ingesting") \/ (use_compression /\ history = "compressed"))
    => \A query \in Queries : _tokenize(query) # <<>> => Returns(query, Matching(query))

\* a compressed index of two documents answered a two-token query with one of them
C1_Witness ==
    /\ use_compression /\ history = "compressed"
    /\ lastOp.op = "search" /\ _tokenize(lastOp.query) = <<"a", "b">>
    /\ Cardinality(DOMAIN doc_ids) = 2
    /\ err = "none" /\ Cardinality(ret) = 1

\* C2: a search returns the same before and after compress_index, for an
\* index constructed with either value of the flag.
C2_CompressionPreservesResults ==
    [][(lastOp'.op = "compress_index" /\ history = "ingesting")
        => \A query \in Queries :
              SearchIn(index, doc_ids, use_compression, query)
              = SearchIn(index', doc_ids', use_compression', query)]_vars

\* C3: add_document with an id that the preceding add_document call was given
\* leaves the registry, the counter and the postings table as they are.
C3_IdempotentIngestion ==
    [][(lastOp.op = "add_document" /\ lastOp'.op = "add_document" /\ lastOp'.doc = lastOp.doc)
        => UNCHANGED <<index, index_order, index_isdd, doc_ids, doc_counter, texts>>]_vars

\* a second add_document of a registered id has run on a non-empty table
C3_Witness ==
    /\ lastOp.op = "add_document" /\ lastOp.dup
    /\ lastOp.doc \in DOMAIN doc_ids
    /\ DOMAIN index # {}

FileHolds(f, ix, order, isdd, ids, counter, flag) ==
    /\ f.present
    /\ f.index = ix /\ f.index_order = order /\ f.index_isdd = isdd
    /\ f.doc_ids = ids /\ f.doc_counter = counter /\ f.use_compression = flag

\* C5: save_to_file writes the four fields of the instance and leaves them as
\* they are; load_from_file makes the four fields of the loading instance,
\* whatever they were, those of the file, so that every query returns on the
\* loading instance what it returns on the saved fields.
C5_SaveLoadRoundTrip ==
    [][/\ lastOp'.op = "save_to_file"
          => /\ UNCHANGED indexVars
             /\ FileHolds(file', index, index_order, index_isdd, doc_ids, doc_counter,
                          use_compression)
       /\ (lastOp'.op = "load_from_file" /\ file.present)
          => /\ err' = "none" /\ UNCHANGED file
             /\ FileHolds(file, index', index_order', index_isdd', doc_ids', doc_counter',
                          use_compression')
             /\ \A query \in PQueries :
                   SearchIn(index', doc_ids', use_compression', query)
                   = SearchIn(file.index, file.doc_ids, file.use_compression, query)]_vars

\* a compression-disabled instance loaded a compressed index of two documents
C5_Witness ==
    /\ lastOp.op = "load_from_file" /\ err = "none"
    /\ ~lastOp.flag /\ use_compression
    /\ ~index_isdd /\ Cardinality(DOMAIN doc_ids) = 2 /\ DOMAIN index # {}
    /\ file.index = index

\* C6: a query with a token that is not in the postings table returns an empty
\* result and raises no error, in every reachable state, wherever the token stands.
C6_AbsentTermEmpty ==
    \A query \in Queries :
        (\E i \in 1..Len(_tokenize(query)) : _tokenize(query)[i] \notin DOMAIN index)
        => Returns(query, {})

\* C7: a search whose query has no tokens returns an empty result, raises
\* nothing and changes nothing, in every reachable state.
C7_EmptyQuery ==
    [][(lastOp'.op = "search" /\ _tokenize(lastOp'.query) = <<>>)
        => /\ ret' = {} /\ err' = "none"
           /\ UNCHANGED <<indexVars, texts>>]_vars

\* a blank query was answered by a compression-enabled index of two documents
\* that was not compressed yet
C7_Witness ==
    /\ lastOp.op = "search" /\ lastOp.query = <<WS>>
    /\ use_compression /\ history = "ingesting" /\ doc_counter = 2
    /\ ret = {} /\ err = "none"

Ordinals == {doc_ids[doc_id] : doc_id \in DOMAIN doc_ids}

\* ordinals are distinct and without gaps, and the counter counts the registered ids
RegistryOK ==
    /\ doc_counter = Cardinality(DOMAIN doc_ids)
    /\ \A d, e \in DOMAIN doc_ids : d # e => doc_ids[d] # doc_ids[e]
    /\ Ordinals = {doc_counter - n : n \in 1..Cardinality(DOMAIN doc_ids)}

\* C8: in every state ordinals are distinct and without gaps and the counter is
\* the number of registered ids; an id keeps its ordinal; a new id gets an
\* ordinal above all the earlier ones.
C8_RegistryInvariant ==
    [][/\ RegistryOK /\ RegistryOK'
       /\ \A d \in DOMAIN doc_ids : d \in DOMAIN doc_ids' /\ doc_ids'[d] = doc_ids[d]
       /\ \A d \in DOMAIN doc_ids' \ DOMAIN doc_ids :
             \A e \in DOMAIN doc_ids : doc_ids[e] < doc_ids'[d]]_vars

\* a second new document was registered
C8_Witness ==
    /\ lastOp.op = "add_document" /\ ~lastOp.dup
    /\ Cardinality(DOMAIN doc_ids) = 2 /\ doc_counter = 2

\* C9 as stated: the first document gets ordinal 1 and every ordinal is >= 1.
C9_OrdinalsFromOne ==
    /\ \A doc_id \in DOMAIN doc_ids : doc_ids[doc_id] >= 1
    /\ Ordinals = 1..Cardinality(DOMAIN doc_ids)

\* C9 amended: the first document of a fresh index gets ordinal 0 and every
\* later new document the next ordinal, so every ordinal is >= 0.
C9_OrdinalsFromZero ==
    [][\A d \in DOMAIN doc_ids' \ DOMAIN doc_ids :
          /\ doc_ids'[d] = Cardinality(DOMAIN doc_ids)
          /\ doc_ids'[d] >= 0]_vars

\* the first document has ordinal 0 and the second, just registered, ordinal 1
C9_Witness ==
    /\ lastOp.op = "add_document" /\ ~lastOp.dup /\ lastOp.doc = DocId(2)
    /\ doc_ids[DocId(1)] = 0 /\ doc_ids[DocId(2)] = 1

Tokens == {LowerWord(w) : w \in Words}

Entries(term) == IF term \in DOMAIN index THEN Len(index[term]) ELSE 0

DocsContaining(term) == {doc_id \in DOMAIN doc_ids : Contains(doc_id, term)}

\* the occurrences of the term in the registered texts
Occurrences(term) ==
    UNION {{<<doc_id, i>> : i \in {j \in 1..Len(DocTokens(doc_id)) : DocTokens(doc_id)[j] = term}}
           : doc_id \in DOMAIN doc_ids}

\* C10 as stated: after add_document calls, in either mode, a term has as many
\* entries as there are registered documents containing it.
C10_OneEntryPerDocument ==
    history = "ingesting"
    => \A term \in Tokens : Entries(term) = Cardinality(DocsContaining(term))

\* C10 amended: after add_document calls a term has one entry per registered
\* document containing it on a compression-enabled index, and one entry per
\* occurrence on a compression-disabled index.
C10_EntriesPerTerm ==
    history = "ingesting"
    => \A term \in Tokens :
          Entries(term) = IF use_compression THEN Cardinality(DocsContaining(term))
                          ELSE Cardinality(Occurrences(term))

\* a compression-enabled index holds one entry, with two positions, for a token
\* that occurs twice in one of two documents
C10_Witness ==
    /\ use_compression /\ history = "ingesting"
    /\ Cardinality(DOMAIN doc_ids) = 2
    /\ Cardinality(Occurrences("a")) = 2 /\ Cardinality(DocsContaining("a")) = 1
    /\ Entries("a") = 1 /\ Len(index["a"][1][2].v) = 2

\* the ordinals in the postings of a term, none for a term that is not stored
PostedOrdinals(term) == IF term \in DOMAIN index THEN _get_doc_ids(index[term]) ELSE {}

\* C11: after add_document calls only, the ordinal of a registered document is
\* in the postings of a term exactly when the term is a token of the text the
\* document was registered with, and no term is stored with empty postings.
C11_PostingsMatchTexts ==
    history = "ingesting"
    => /\ \A term \in Tokens \cup DOMAIN index : \A doc_id \in DOMAIN doc_ids :
             PyInt(doc_ids[doc_id]) \in PostedOrdinals(term) <=> Contains(doc_id, term)
       /\ \A term \in DOMAIN index : index[term] # <<>>

\* two documents were ingested, one token in both and one in the second only
C11_Witness ==
    /\ history = "ingesting" /\ lastOp.op = "add_document" /\ ~lastOp.dup
    /\ Cardinality(DOMAIN doc_ids) = 2
    /\ DOMAIN index = {"a", "b"}
    /\ PostedOrdinals("b") = {PyInt(0), PyInt(1)} /\ PostedOrdinals("a") = {PyInt(1)}

\* postings hold gamma codes that decode to the ordinals of the raw postings
GammaEncoded(postings, raw) ==
    /\ \A i \in 1..Len(postings) : postings[i][1].k = "bytes" /\ postings[i][2].k = "bytes"
    /\ Decompress(postings, 1, 0).err = "none"
    /\ _get_doc_ids(Decompress(postings, 1, 0).out) = _get_doc_ids(raw)

\* the table after the step holds the gamma-encoded postings of the table before it
TableEncoded ==
    /\ DOMAIN index' = DOMAIN index
    /\ \A term \in DOMAIN index : GammaEncoded(index'[term], index[term])

\* C12: after compress_index returns, for either value of the flag at
\* construction, the flag says compressed and every term maps to its
\* gamma-encoded postings.
C12_CompressedForEitherFlag ==
    [][(lastOp'.op = "compress_index" /\ err' = "none")
        => use_compression' /\ TableEncoded]_vars

\* C12, amended: compress_index never changes the flag; when it returns on a
\* compression-enabled index every term maps to its gamma-encoded postings,
\* and on a compression-disabled index the table is left as it was.
C12_CompressedWhenEnabled ==
    [][(lastOp'.op = "compress_index" /\ err' = "none")
        => IF use_compression
           THEN use_compression' /\ TableEncoded
           ELSE ~use_compression' /\ index' = index /\ index_isdd' = index_isdd]_vars

\* compress_index returned on a compression-enabled index of two documents
\* sharing a term: the second posting of the term holds the code of the gap 1
C12_Witness ==
    /\ lastOp.op = "compress_index" /\ lastOp.flag /\ err = "none"
    /\ Cardinality(DOMAIN doc_ids) = 2
    /\ "b" \in DOMAIN index /\ Len(index["b"]) = 2
    /\ index["b"][2][1] = PyBytes(_gamma_encode(1))

\* C13: compress_index on an index that is compressed already raises nothing
\* and changes neither the table nor the registry, the counter or the flag.
C13_RecompressIsNoOp ==
    [][(lastOp'.op = "compress_index" /\ use_compression /\ history = "compressed")
        => err' = "none" /\ UNCHANGED indexVars]_vars

\* C14: encoding 0 signals an invalid-value error and returns no encoding.
C14_ZeroIsError == (gpc \in {"encoded", "decoded"} /\ gnum = 0) => err = "ValueError"

\* C14, amended: _gamma_encode raises for no number, and the encoding it
\* returns is empty for 0 and for 0 only.
C14_ZeroIsEmpty == gpc \in {"encoded", "decoded"} => err = "none" /\ (genc = <<>> <=> gnum = 0)

\* zero was encoded as the empty byte string and decoded back
C14_Witness == gpc = "decoded" /\ gnum = 0 /\ genc = <<>> /\ gdec = 0 /\ err = "none"

\* the file holds no pickle, or a pickled dict that lacks one of the four keys
Malformed == file.present /\ (~file.valid \/ file.keys # PickleKeys)

\* C15: load_from_file given a malformed blob or a record lacking a field
\* raises an error and leaves the four fields of the index as they were.
C15_FailedLoadChangesNothing ==
    [][(lastOp'.op = "load_from_file" /\ Malformed)
        => err' # "none" /\ UNCHANGED indexVars]_vars

\* the states in which search is specified to answer: raw postings with the
\* flag off, postings compressed once with the flag on
Queryable ==
    (~use_compression /\ history = "ingesting") \/ (use_compression /\ history = "compressed")

\* the words of a registered text as they were written
RawWords(doc_id) == {texts[doc_id][i] : i \in 1..Len(texts[doc_id])}

\* the registered ids whose text holds every word of the query in the query's case
MatchingExact(query) ==
    {doc_id \in DOMAIN doc_ids : \A i \in 1..Len(split(query)) : split(query)[i] \in RawWords(doc_id)}

\* C16: tokens are not case-folded: the terms of the table are the words of
\* the texts as written, and a query word matches only the documents that
\* contain it in the same case.
C16_NoCaseFolding ==
    /\ history = "ingesting" => DOMAIN index = UNION {RawWords(doc_id) : doc_id \in DOMAIN doc_ids}
    /\ Queryable => \A query \in Queries :
                       split(query) # <<>> => Returns(query, MatchingExact(query))

TokenSet(query) == {_tokenize(query)[i] : i \in 1..Len(_tokenize(query))}

\* one query for every set of tokens
Canonical(query) == CHOOSE c \in OQueries : TokenSet(c) = TokenSet(query)

\* C17: in a queryable state a search returns the same ids for every order
\* and every repetition of the query tokens: the answer to a query is the
\* answer to any other query with the same set of tokens.
C17_OrderAndRepetition ==
    Queryable => \A query \in OQueries :
                    /\ Search(query).err = "none"
                    /\ Search(query) = Search(Canonical(query))

\* 'A b A' was answered with one of two documents, as 'b A' and 'A b' are
C17_Witness ==
    /\ Queryable /\ lastOp.op = "search" /\ lastOp.query = <<"A", WS, "b", WS, "A">>
    /\ Cardinality(DOMAIN doc_ids) = 2 /\ err = "none" /\ Cardinality(ret) = 1
    /\ Search(<<"b", WS, "A">>).ret = ret /\ Search(<<"A", WS, "b">>).ret = ret

\* the URLs a run has yielded
YieldedUrls == {yielded[i] : i \in 1..Len(yielded)}

\* C18: a run of crawl() yields at most max_pages pages; a URL whose fetch
\* fails is not yielded and is not counted: the count is the number of pages
\* yielded.
C18_AtMostMaxPages ==
    /\ Len(yielded) <= max_pages
    /\ pages_crawled = Len(yielded)
    /\ fetch_failed \cap YieldedUrls = {}

\* a run ended at the maximum of two pages: the start page and, after the
\* fetch of its first link failed, its second link
C18_Witness ==
    /\ cpc = "done" /\ runs = 1 /\ max_pages = 2
    /\ Len(yielded) = 2 /\ pages_crawled = 2 /\ fetch_failed # {}

\* C19: a second run of crawl() on the same WebCrawler and the same site
\* yields the same sequence of pages as the first.
C19_SecondRunYieldsTheSame == (cpc = "done" /\ runs = 2) => yielded = first_yield

\* the rows of the table with the given url
RowsOf(url) == {row \in pages : row.url = url}

PostedWhole(doc_id) ==
    /\ doc_id \in DOMAIN doc_ids'
    /\ \A i \in 1..Len(_tokenize(texts'[doc_id])) :
          /\ _tokenize(texts'[doc_id])[i] \in DOMAIN index'
          /\ PyInt(doc_ids'[doc_id]) \in _get_doc_ids(index'[_tokenize(texts'[doc_id])[i]])

\* C21: in every state, compressed or not, an add_document call either leaves
\* the registry, the counter and the table unchanged or registers the
\* document and posts every one of its tokens, whether it raises or not.
C21_AddDocumentIsAtomic ==
    [][lastOp'.op = "add_document"
        => \/ UNCHANGED <<doc_ids, doc_counter, index>>
           \/ PostedWhole(lastOp'.doc)]_vars

\* every entry of the table starts with an int, or every entry with bytes
Homogeneous ==
    \/ \A term \in DOMAIN index : \A i \in 1..Len(index[term]) : index[term][i][1].k = "int"
    \/ \A term \in DOMAIN index : \A i \in 1..Len(index[term]) : index[term][i][1].k = "bytes"

\* C22: the entries of the postings table are all raw or all gamma-encoded
\* in every state, so that no operation after compress_index puts a raw
\* entry next to the encoded ones.
C22_HomogeneousTable == Homogeneous

\* the document delta that was encoded into the i-th entry of a term of the
\* table after the step
EncodedDelta(term, i) == _gamma_decode(index'[term][i][1].v)

\* a compress_index call that encodes the raw table and returns
Compresses == lastOp'.op = "compress_index" /\ use_compression /\ err' = "none"

\* C23: every document delta compress_index hands to the encoder, the first
\* ordinal of a term as well as the differences of successive ordinals, is
\* at least 1.
C23_DeltasAtLeastOne ==
    [][Compresses
        => \A term \in DOMAIN index' : \A i \in 1..Len(index'[term]) :
              EncodedDelta(term, i) >= 1]_vars

\* the smallest ordinal posted under a term of the raw table before the step
FirstPosted(term) ==
    CHOOSE o \in _get_doc_ids(index[term]) : \A x \in _get_doc_ids(index[term]) : o.v <= x.v

\* C23, amended: the first delta of a term is its smallest ordinal, which is
\* 0 for a term of the first document, and every later delta, the difference
\* of two successive ordinals, is at least 1.
C23_OnlyFirstDeltaCanBeZero ==
    [][Compresses
        => \A term \in DOMAIN index' : \A i \in 1..Len(index'[term]) :
              IF i = 1
              THEN EncodedDelta(term, i) = FirstPosted(term).v
              ELSE EncodedDelta(term, i) >= 1]_vars

\* a table was compressed in which one term starts at the first document, with
\* a gap of 1 to the second, and another term starts at the second document
C23_Witness ==
    /\ lastOp.op = "compress_index" /\ lastOp.flag /\ err = "none" /\ history = "compressed"
    /\ DOMAIN index = {"a", "b"}
    /\ Len(index["b"]) = 2
    /\ _gamma_decode(index["b"][1][1].v) = 0 /\ _gamma_decode(index["b"][2][1].v) = 1
    /\ Len(index["a"]) = 1 /\ _gamma_decode(index["a"][1][1].v) = 1

\* floor(log2(n)) for n >= 1
Log2(n) == CHOOSE k \in 0..n : 2^k <= n /\ n < 2^(k + 1)

\* the code is the unary part of k bits u, the terminator t and the k
\* low-order bits of n
HasGammaShape(code, n, u, t) ==
    LET k == Log2(n)
    IN /\ Len(code) = 2 * k + 1
       /\ \A i \in 1..k : code[i] = u
       /\ code[k + 1] = t
       /\ ParseBin(SubSeq(code, k + 2, 2 * k + 1)) = n - 2^k

\* C24: the encoding of n >= 1 with k = floor(log2(n)) is k zero-bits, a
\* one-bit terminator and the k low-order bits of n, 2k+1 bits in all.
C24_ZerosThenOne ==
    (gpc \in {"encoded", "decoded"} /\ gnum >= 1) => HasGammaShape(genc, gnum, "0", "1")

\* C24, amended: the encoding of n >= 1 with k = floor(log2(n)) is k
\* one-bits, a zero-bit terminator and the k low-order bits of n, 2k+1 bits
\* in all.
C24_OnesThenZero ==
    (gpc \in {"encoded", "decoded"} /\ gnum >= 1) => HasGammaShape(genc, gnum, "1", "0")

\* 5 = 101b was encoded as 11 0 01
C24_Witness == gpc = "encoded" /\ gnum = 5 /\ genc = <<"1", "1", "0", "0", "1">>

\* C25: compress_index, search and save_to_file leave the registered ids,
\* their ordinals and the counter unchanged, as does add_document of a
\* registered id; search and save_to_file also leave the postings table
\* unchanged.
C25_RegistryFrame ==
    [][/\ (\/ lastOp'.op \in {"compress_index", "search", "save_to_file"}
           \/ (lastOp'.op = "add_document" /\ lastOp'.dup))
          => UNCHANGED <<doc_ids, doc_counter>>
       /\ lastOp'.op \in {"search", "save_to_file"}
          => UNCHANGED <<index, index_order, index_isdd>>]_vars

\* an index holding a document was searched for a term it does not hold, and
\* the term is still no key of the table
C25_Witness ==
    /\ lastOp.op = "search" /\ _tokenize(lastOp.query) # <<>>
    /\ _tokenize(lastOp.query)[1] \notin DOMAIN index
    /\ index_isdd /\ DOMAIN index # {} /\ doc_counter = 2

\* C26: every turn of the loop of crawl() yields one page, at most max_pages
\* of them, or drops the URL whose fetch failed and queues nothing; and every
\* run ends.
C26_CrawlTerminates ==
    /\ [][(cpc = "running" /\ cpc' = "running")
           => \/ /\ Len(yielded') = Len(yielded) + 1
                 /\ Len(yielded') <= max_pages
              \/ /\ yielded' = yielded
                 /\ queue' = Tail(queue)
                 /\ visited_urls' = visited_urls]_vars
    /\ (cpc = "running" ~> cpc = "done")

\* a run in which the only request failed has ended without a page
C26_Witness ==
    /\ cpc = "done" /\ max_pages > 0
    /\ yielded = <<>> /\ fetch_failed = {StartUrl} /\ queue = <<>>

NoRepetition(q) == \A i, j \in 1..Len(q) : i # j => q[i] # q[j]

QueuedUrls == {queue[i] : i \in 1..Len(queue)}

\* C27: within a run no URL is queued, fetched or yielded twice: the queue
\* and the yielded pages hold no URL twice, no URL that was fetched is in the
\* queue, and every queued URL is in visited_urls.
C27_NoUrlTwice ==
    /\ NoRepetition(queue) /\ NoRepetition(yielded)
    /\ QueuedUrls \cap (YieldedUrls \cup fetch_failed) = {}
    /\ QueuedUrls \subseteq visited_urls

\* a run yielded the start page and the page it links to, whose link back to
\* the start page was not queued
C27_Witness ==
    /\ cpc = "done" /\ Len(yielded) = 2 /\ queue = <<>>
    /\ yielded[2] \in DOMAIN site /\ site[yielded[2]] = <<StartUrl>>
====
